---- MODULE Spec2Model ----
(***************************************************************************)
(* Room / session state machine of the ShadowSignal backend                *)
(* (backend/src/state/rooms.ts and backend/src/handlers/room.handlers.ts). *)
(*                                                                         *)
(* Node runs every socket handler and every timer callback to completion,  *)
(* so each handler and each timer firing is one atomic action.             *)
(***************************************************************************)
EXTENDS Integers, Sequences, FiniteSets, TLC

\* ------------------------------------------------------------------ bounds
\* number of socket connections that ever create or join (socket.id is fresh)
MaxConn == 4
\* number of 5 s results-delay timeouts that may be pending at once
MaxResultTimers == 1
\* number of outcomes of one shuffle that are tried
MaxShuffles == 2
\* number of connections that may disconnect
MaxDisconnects == 1
\* number of players of a room that accepted votes are cast for
MaxTargets == 2
\* number of connections that ever create or join when rooms are vacated
MaxConnVacate == 5

\* ------------------------------------------------------------- value space
NULL == "null"
UNDEFINED == "undefined"
\* Date.now(): the value is never compared, only null / non-null matters
Now == "now"

ConnIds == <<"s1", "s2", "s3", "s4", "s5", "s6">>
Ids == {ConnIds[i] : i \in 1..MaxConn}
\* the display name a connection sends with create-room / join-room
Names == <<"Ann", "Bob", "Cy", "Dee", "Eve", "Fay">>
NameOf(id) == Names[CHOOSE i \in DOMAIN ConnIds : ConnIds[i] = id]

\* the names a connection sends: its own, a blank one and, for all but the
\* first connection, the first connection's name in capitals with padding
nameInputs(id) ==
  IF id = ConnIds[1] THEN {NameOf(id), "  "} ELSE {NameOf(id), " ANN ", "  "}

\* names at the length limit of the home page and one character above it
MaxNameLength == 20
LongNames == {"Maximilian Alexander", "Maximilian Alexanders"}

\* the names a client that is not the home page may send as well
anyNameInputs(id) == nameInputs(id) \cup LongNames

\* String.prototype.length
length(str) == Len(str)

\* String.prototype.trim on the strings in use
trim(str) ==
  IF str = " ANN " THEN "ANN" ELSE IF str = "  " THEN "" ELSE str

\* String.prototype.toLowerCase on the names in use
toLowerCase(name) ==
  IF name = "Ann" THEN "ann" ELSE IF name = "ANN" THEN "ann"
  ELSE IF name = "Bob" THEN "bob"
  ELSE IF name = "Cy" THEN "cy" ELSE IF name = "Dee" THEN "dee"
  ELSE IF name = "Eve" THEN "eve" ELSE IF name = "Fay" THEN "fay"
  ELSE IF name = "Maximilian Alexander" THEN "maximilian alexander"
  ELSE IF name = "Maximilian Alexanders" THEN "maximilian alexanders"
  ELSE name

\* generateRoomCode draws from 26^5 codes; one code is enough for one room
Codes == {"QKJTZ"}
\* the room codes a client sends with join-room
CodeInputs == Codes \cup {"qkjtz", ""}

\* String.prototype.toUpperCase on the codes in use
toUpperCase(code) == IF code = "qkjtz" THEN "QKJTZ" ELSE code

Modes == {"infiltrator", "spy"}
TURN_DURATION == 30000

\* data/words.json: domains of entries (word, similar[])
wordData ==
  << [name |-> "food",
      words |-> << [word |-> "apple", similar |-> <<"pear">>] >>],
     [name |-> "travel",
      words |-> << [word |-> "car", similar |-> <<"bus">>] >>] >>

VARIABLES rooms, timers, nextConn
vars == <<rooms, timers, nextConn>>

\* ---------------------------------------------------------------- helpers
Range(s) == {s[i] : i \in DOMAIN s}

\* position of an id in ConnIds (0 when absent)
Pos(id) == IF \E i \in DOMAIN ConnIds : ConnIds[i] = id
           THEN CHOOSE i \in DOMAIN ConnIds : ConnIds[i] = id ELSE 0

\* choose(arr): any element (Math.random)
choose(arr) == Range(arr)

\* shuffle(arr): Fisher-Yates can return every permutation of arr. The draws of
\* Math.random are bounded to those that rotate arr by fewer than MaxShuffles
\* places
shuffle(arr) ==
  LET n == Len(arr)
  IN {[i \in 1..n |-> arr[((i - 1 + k) % n) + 1]] : k \in 0..(MaxShuffles - 1)}

getRandomWord ==
  {e.word : e \in UNION {Range(d.words) : d \in Range(wordData)}}

\* getWordPair drawing the similar word from any entry
getWordPair_anySimilar ==
  LET entries == UNION {Range(d.words) : d \in Range(wordData)}
  IN UNION {{[mainWord |-> e.word, similarWord |-> s] :
               s \in UNION {Range(f.similar) : f \in entries}} :
             e \in entries}

\* getWordPair: choose(domains), choose(domain.words), choose(entry.similar)
getWordPair ==
  UNION {{[mainWord |-> e.word, similarWord |-> s] : s \in Range(e.similar)} :
           e \in UNION {Range(d.words) : d \in Range(wordData)}}

\* players.find(p => p.id === id): index of the first match, 0 when none
find(players, id) ==
  IF \E i \in DOMAIN players : players[i].id = id
  THEN CHOOSE i \in DOMAIN players :
         /\ players[i].id = id
         /\ \A j \in 1..(i-1) : players[j].id # id
  ELSE 0

\* const p = players.find(..); p && p.alive
foundAlive(players, id) ==
  LET i == find(players, id) IN i # 0 /\ players[i].alive

\* room.players.filter(p => p.alive)
alivePlayers(room) == SelectSeq(room.players, LAMBDA p : p.alive)

\* room.players.forEach(p => p.alive = true)
allAlive(players) == [i \in DOMAIN players |-> [players[i] EXCEPT !.alive = TRUE]]

\* room.players.map(p => p.id) as a set
idsOf(room) == {room.players[i].id : i \in DOMAIN room.players}

\* ------------------------------------------------------------ getClientRoom
RoomFields == {"roomCode", "hostId", "players", "mode", "phase", "roles", "words",
               "turnOrder", "currentTurnIndex", "turnStartTime", "turnDuration",
               "votes", "eliminated", "lastEliminated", "round", "winner",
               "winningPlayers"}

\* obj[key] on a Record<string, T>
lookup(obj, key) == IF key \in DOMAIN obj THEN obj[key] ELSE UNDEFINED

\* getClientRoom with roles left in the rest object: const { words, ...safeRoom }
getClientRoom_keepsRoles(room, playerId) ==
  LET safeRoom == [f \in (DOMAIN room) \ {"words"} |-> room[f]]
  IN [f \in (DOMAIN safeRoom) \cup {"myRole", "myWord"} |->
        IF f = "myRole" THEN lookup(room.roles, playerId)
        ELSE IF f = "myWord" THEN lookup(room.words, playerId)
        ELSE safeRoom[f]]

\* const { roles, words, ...safeRoom } = room; { ...safeRoom, myRole, myWord }
getClientRoom(room, playerId) ==
  LET safeRoom == [f \in (DOMAIN room) \ {"roles", "words"} |-> room[f]]
  IN [f \in (DOMAIN safeRoom) \cup {"myRole", "myWord"} |->
        IF f = "myRole" THEN lookup(room.roles, playerId)
        ELSE IF f = "myWord" THEN lookup(room.words, playerId)
        ELSE safeRoom[f]]

\* the room-updated payloads of one broadcast
broadcastRoomUpdate(room) ==
  {[to |-> room.players[i].id, data |-> getClientRoom(room, room.players[i].id)] :
     i \in DOMAIN room.players}

\* ------------------------------------------------------------------ timers
\* timers lists the pending timeouts in the order they were armed.
\*   kind "turn":    setTimeout(advanceTurn(code), turnDuration);
\*                   attached = roomTimers[code] still holds its handle
\*   kind "results": setTimeout(startNextRound(room), 5000);
\*                   attached = the captured room object is still rooms[code]
turnTimer(c) == [kind |-> "turn", code |-> c, attached |-> TRUE]
resultsTimer(c) == [kind |-> "results", code |-> c, attached |-> TRUE]

\* const t = roomTimers.get(code); if (t) clearTimeout(t)
clearTimer(ts, c) ==
  SelectSeq(ts, LAMBDA t : ~(t.kind = "turn" /\ t.code = c /\ t.attached))

removeAt(s, i) == [j \in 1..(Len(s)-1) |-> IF j < i THEN s[j] ELSE s[j+1]]

\* timeouts expire in the order of their expiry time: a 5 s timeout armed
\* before another timeout expires before it, a 30 s one may be overtaken by
\* 5 s timeouts armed after it
canFire(ts, i) ==
  /\ i \in DOMAIN ts
  /\ IF ts[i].kind = "turn" THEN i = 1
     ELSE \A j \in 1..(i-1) : ts[j].kind # "results"

\* -------------------------------------------------------------- operations
\* the state the functions of rooms.ts read and write: the rooms map and the
\* pending timeouts
St(rs, ts) == [rooms |-> rs, timers |-> ts]

setRoom(rs, c, room) == [x \in (DOMAIN rs) \cup {c} |-> IF x = c THEN room ELSE rs[x]]
deleteRoom(rs, c) == [x \in (DOMAIN rs) \ {c} |-> rs[x]]

createRoom(roomCode, hostId, hostName) ==
  [roomCode |-> roomCode,
   hostId |-> hostId,
   players |-> << [id |-> hostId, name |-> hostName, alive |-> TRUE] >>,
   mode |-> "infiltrator",
   phase |-> "lobby",
   roles |-> << >>,
   words |-> << >>,
   turnOrder |-> << >>,
   currentTurnIndex |-> 0,
   turnStartTime |-> NULL,
   turnDuration |-> TURN_DURATION,
   votes |-> << >>,
   eliminated |-> << >>,
   lastEliminated |-> NULL,
   round |-> 1,
   winner |-> NULL,
   winningPlayers |-> {}]

\* joinRoom comparing the names as they are, without toLowerCase
joinRoomError_caseSensitive(rs, c, playerName) ==
  IF c \notin DOMAIN rs THEN "Room not found"
  ELSE IF rs[c].phase # "lobby" THEN "Game already in progress"
  ELSE IF \E i \in DOMAIN rs[c].players : rs[c].players[i].name = playerName
       THEN "Name already taken"
  ELSE "ok"

\* joinRoom: "ok" or the message of the Error it throws
joinRoomError(rs, c, playerName) ==
  IF c \notin DOMAIN rs THEN "Room not found"
  ELSE IF rs[c].phase # "lobby" THEN "Game already in progress"
  ELSE IF \E i \in DOMAIN rs[c].players :
            toLowerCase(rs[c].players[i].name) = toLowerCase(playerName)
       THEN "Name already taken"
  ELSE "ok"

joinRoom(room, playerId, playerName) ==
  [room EXCEPT !.players =
     Append(@, [id |-> playerId, name |-> playerName, alive |-> TRUE])]

\* findRoomByPlayerId: the first room of the map that lists the id
findRoomByPlayerId(rs, playerId) ==
  {c \in DOMAIN rs : \E i \in DOMAIN rs[c].players : rs[c].players[i].id = playerId}

\* removePlayer without the reassignment of hostId
removePlayer_keepsHost(rs, ts, c, playerId) ==
  IF c \notin DOMAIN rs THEN St(rs, ts)
  ELSE
    LET room == rs[c]
        left == SelectSeq(room.players, LAMBDA p : p.id # playerId)
    IN IF Len(left) = 0
       THEN St(deleteRoom(rs, c),
               LET cleared == clearTimer(ts, c)
               IN [i \in DOMAIN cleared |->
                     IF cleared[i].kind = "results" /\ cleared[i].code = c
                     THEN [cleared[i] EXCEPT !.attached = FALSE]
                     ELSE cleared[i]])
       ELSE St(setRoom(rs, c, [room EXCEPT !.players = left]), ts)

\* removePlayer that takes the leaver out of turnOrder as well
removePlayer_filtersOrder(rs, ts, c, playerId) ==
  IF c \notin DOMAIN rs THEN St(rs, ts)
  ELSE
    LET room == rs[c]
        left == SelectSeq(room.players, LAMBDA p : p.id # playerId)
    IN IF Len(left) = 0
       THEN St(deleteRoom(rs, c),
               LET cleared == clearTimer(ts, c)
               IN [i \in DOMAIN cleared |->
                     IF cleared[i].kind = "results" /\ cleared[i].code = c
                     THEN [cleared[i] EXCEPT !.attached = FALSE]
                     ELSE cleared[i]])
       ELSE St(setRoom(rs, c,
                 [room EXCEPT !.players = left,
                              !.turnOrder = SelectSeq(@, LAMBDA id : id # playerId),
                              !.hostId = IF room.hostId = playerId
                                         THEN left[1].id ELSE @]),
               ts)

\* removePlayer on St(rs, ts)
removePlayer(rs, ts, c, playerId) ==
  IF c \notin DOMAIN rs THEN St(rs, ts)
  ELSE
    LET room == rs[c]
        left == SelectSeq(room.players, LAMBDA p : p.id # playerId)
    IN IF Len(left) = 0
       THEN St(deleteRoom(rs, c),
               \* the room object lives on only in its results-delay closures
               LET cleared == clearTimer(ts, c)
               IN [i \in DOMAIN cleared |->
                     IF cleared[i].kind = "results" /\ cleared[i].code = c
                     THEN [cleared[i] EXCEPT !.attached = FALSE]
                     ELSE cleared[i]])
       ELSE St(setRoom(rs, c,
                 [room EXCEPT !.players = left,
                              !.hostId = IF room.hostId = playerId
                                         THEN left[1].id ELSE @]),
               ts)

\* startTurnTimer without its setTimeout
startTurnTimer_noTimeout(rs, ts, c) ==
  IF c \notin DOMAIN rs THEN St(rs, ts)
  ELSE St(setRoom(rs, c, [rs[c] EXCEPT !.turnStartTime = Now]),
          clearTimer(ts, c))

\* startTurnTimer on St(rs, ts)
startTurnTimer(rs, ts, c) ==
  IF c \notin DOMAIN rs THEN St(rs, ts)
  ELSE St(setRoom(rs, c, [rs[c] EXCEPT !.turnStartTime = Now]),
          Append(clearTimer(ts, c), turnTimer(c)))

\* the role and word maps startGame writes for one special player
assignRoles(players, mode, specialPlayerId) ==
  LET ids == {players[i].id : i \in DOMAIN players}
  IN [id \in ids |->
        IF mode = "infiltrator"
        THEN IF id = specialPlayerId THEN "infiltrator" ELSE "citizen"
        ELSE IF id = specialPlayerId THEN "spy" ELSE "agent"]

assignWords(players, specialPlayerId, specialWord, commonWord) ==
  LET ids == {players[i].id : i \in DOMAIN players}
  IN [id \in ids |-> IF id = specialPlayerId THEN specialWord ELSE commonWord]

\* startGame after its two throws: the set of outcomes over the random draws
startGame(rs, ts, c, mode) ==
  LET room == rs[c]
      players == allAlive(room.players)
      ids == [i \in DOMAIN players |-> players[i].id]
      wordChoices ==
        IF mode = "infiltrator"
        THEN {[special |-> NULL, common |-> w] : w \in getRandomWord}
        ELSE {[special |-> wp.similarWord, common |-> wp.mainWord] : wp \in getWordPair}
  IN { startTurnTimer(
         setRoom(rs, c,
           [room EXCEPT !.mode = mode,
                        !.phase = "speaking",
                        !.round = 1,
                        !.roles = assignRoles(players, mode, shuffledIds[1]),
                        !.words = assignWords(players, shuffledIds[1], w.special, w.common),
                        !.votes = << >>,
                        !.eliminated = << >>,
                        !.lastEliminated = NULL,
                        !.winner = NULL,
                        !.winningPlayers = {},
                        !.players = players,
                        !.turnOrder = order,
                        !.currentTurnIndex = 0,
                        !.turnStartTime = Now]),
         ts, c) :
       shuffledIds \in shuffle(ids), order \in shuffle(ids), w \in wordChoices }

\* advanceTurn without the clearTimeout at its start
advanceTurn_keepsTimer(rs, ts, c) ==
  IF c \notin DOMAIN rs THEN St(rs, ts)
  ELSE
    LET room == rs[c]
        idx == room.currentTurnIndex + 1
        aliveTurnOrder ==
          SelectSeq(room.turnOrder, LAMBDA id : foundAlive(room.players, id))
    IN IF idx >= Len(aliveTurnOrder)
       THEN St(setRoom(rs, c,
                 [room EXCEPT !.currentTurnIndex = idx,
                              !.phase = "voting",
                              !.votes = << >>,
                              !.turnStartTime = NULL]),
               ts)
       ELSE startTurnTimer(
              setRoom(rs, c, [room EXCEPT !.currentTurnIndex = idx,
                                          !.turnOrder = aliveTurnOrder]),
              ts, c)

\* advanceTurn on St(rs, ts)
advanceTurn(rs, ts, c) ==
  IF c \notin DOMAIN rs THEN St(rs, ts)
  ELSE
    LET room == rs[c]
        cleared == clearTimer(ts, c)
        idx == room.currentTurnIndex + 1
        aliveTurnOrder ==
          SelectSeq(room.turnOrder, LAMBDA id : foundAlive(room.players, id))
    IN IF idx >= Len(aliveTurnOrder)
       THEN St(setRoom(rs, c,
                 [room EXCEPT !.currentTurnIndex = idx,
                              !.phase = "voting",
                              !.votes = << >>,
                              !.turnStartTime = NULL]),
               cleared)
       ELSE startTurnTimer(
              setRoom(rs, c, [room EXCEPT !.currentTurnIndex = idx,
                                          !.turnOrder = aliveTurnOrder]),
              cleared, c)

\* skipTurn without its current-speaker check
skipTurnError_anySpeaker(rs, c, playerId) ==
  IF c \notin DOMAIN rs THEN "Room not found"
  ELSE IF rs[c].phase # "speaking" THEN "Not in speaking phase"
  ELSE "ok"

\* skipTurn: "ok" or the message of the Error it throws
skipTurnError(rs, c, playerId) ==
  IF c \notin DOMAIN rs THEN "Room not found"
  ELSE IF rs[c].phase # "speaking" THEN "Not in speaking phase"
  ELSE IF ~(rs[c].currentTurnIndex + 1 \in DOMAIN rs[c].turnOrder
            /\ rs[c].turnOrder[rs[c].currentTurnIndex + 1] = playerId)
       THEN "Not your turn"
  ELSE "ok"

\* the ids of a set in the order of ConnIds
RECURSIVE inOrder(_)
inOrder(S) ==
  IF S = {} THEN << >>
  ELSE LET m == CHOOSE x \in S : \A y \in S : Pos(x) <= Pos(y)
       IN <<m>> \o inOrder(S \ {m})

\* for (const targetId of Object.values(room.votes)) tally[targetId]++
tallyOf(votes) ==
  [t \in {votes[v] : v \in DOMAIN votes} |->
     Cardinality({v \in DOMAIN votes : votes[v] = t})]

\* the tally loop without its else-if branch: a tied target is not pushed
RECURSIVE tallyLoop_noTies(_, _, _, _)
tallyLoop_noTies(keys, tally, maxVotes, candidates) ==
  IF keys = << >> THEN candidates
  ELSE LET playerId == Head(keys)
           n == tally[playerId]
       IN IF n > maxVotes THEN tallyLoop_noTies(Tail(keys), tally, n, <<playerId>>)
          ELSE tallyLoop_noTies(Tail(keys), tally, maxVotes, candidates)

\* the loop over Object.entries(tally) that keeps maxVotes and candidates; the
\* order of the entries only decides the order of candidates
RECURSIVE tallyLoop(_, _, _, _)
tallyLoop(keys, tally, maxVotes, candidates) ==
  IF keys = << >> THEN candidates
  ELSE LET playerId == Head(keys)
           n == tally[playerId]
       IN IF n > maxVotes THEN tallyLoop(Tail(keys), tally, n, <<playerId>>)
          ELSE IF n = maxVotes
               THEN tallyLoop(Tail(keys), tally, maxVotes, Append(candidates, playerId))
          ELSE tallyLoop(Tail(keys), tally, maxVotes, candidates)

candidatesOf(votes) ==
  LET tally == tallyOf(votes) IN tallyLoop(inOrder(DOMAIN tally), tally, 0, << >>)

\* Object.entries(room.roles).find(([, r]) => r === role)?.[0]
roleHolder(roles, role) ==
  LET S == {id \in DOMAIN roles : roles[id] = role}
  IN IF S = {} THEN UNDEFINED ELSE inOrder(S)[1]

\* checkWinCondition with aliveCount === 2 for aliveCount <= 2
checkWinCondition_exactlyTwo(room) ==
  LET alive == alivePlayers(room)
      aliveCount == Len(alive)
      odd == IF room.mode = "infiltrator" THEN "infiltrator" ELSE "spy"
      oddId == roleHolder(room.roles, odd)
      oddAlive == \E i \in DOMAIN alive : alive[i].id = oddId
  IN IF oddId = UNDEFINED THEN NULL
     ELSE IF ~oddAlive THEN (IF room.mode = "infiltrator" THEN "citizens" ELSE "agents")
     ELSE IF aliveCount = 2 /\ oddAlive THEN odd
     ELSE NULL

\* checkWinCondition with aliveCount < 2 for aliveCount <= 2
checkWinCondition_belowTwo(room) ==
  LET alive == alivePlayers(room)
      aliveCount == Len(alive)
      odd == IF room.mode = "infiltrator" THEN "infiltrator" ELSE "spy"
      oddId == roleHolder(room.roles, odd)
      oddAlive == \E i \in DOMAIN alive : alive[i].id = oddId
  IN IF oddId = UNDEFINED THEN NULL
     ELSE IF ~oddAlive THEN (IF room.mode = "infiltrator" THEN "citizens" ELSE "agents")
     ELSE IF aliveCount < 2 /\ oddAlive THEN odd
     ELSE NULL

\* checkWinCondition without the win of the odd side at two alive players
checkWinCondition_oddNeverWins(room) ==
  LET alive == alivePlayers(room)
      odd == IF room.mode = "infiltrator" THEN "infiltrator" ELSE "spy"
      oddId == roleHolder(room.roles, odd)
      oddAlive == \E i \in DOMAIN alive : alive[i].id = oddId
  IN IF oddId = UNDEFINED THEN NULL
     ELSE IF ~oddAlive THEN (IF room.mode = "infiltrator" THEN "citizens" ELSE "agents")
     ELSE NULL

\* checkWinCondition(room): the winning side, or null
checkWinCondition(room) ==
  LET alive == alivePlayers(room)
      aliveCount == Len(alive)
      odd == IF room.mode = "infiltrator" THEN "infiltrator" ELSE "spy"
      oddId == roleHolder(room.roles, odd)
      oddAlive == \E i \in DOMAIN alive : alive[i].id = oddId
  IN IF oddId = UNDEFINED THEN NULL
     ELSE IF ~oddAlive THEN (IF room.mode = "infiltrator" THEN "citizens" ELSE "agents")
     ELSE IF aliveCount <= 2 /\ oddAlive THEN odd
     ELSE NULL

\* the ids are kept as a set: the order of the array is the order of roles
getWinningPlayers(room, winner) ==
  LET role == IF winner = "citizens" THEN "citizen"
              ELSE IF winner = "infiltrator" THEN "infiltrator"
              ELSE IF winner = "agents" THEN "agent"
              ELSE IF winner = "spy" THEN "spy"
              ELSE NULL
  IN {id \in DOMAIN room.roles : room.roles[id] = role}

\* processVotes that lists the eliminated player and leaves them alive
processVotesWith_keepsAlive(rs, ts, c, eliminatedId) ==
  LET room == rs[c]
      i == find(room.players, eliminatedId)
      room1 == IF i # 0
               THEN [room EXCEPT !.eliminated = Append(@, eliminatedId),
                                 !.lastEliminated = eliminatedId]
               ELSE room
      winner == checkWinCondition(room1)
  IN IF winner # NULL
     THEN St(setRoom(rs, c,
               [room1 EXCEPT !.phase = "ended",
                             !.winner = winner,
                             !.winningPlayers = getWinningPlayers(room1, winner)]),
             clearTimer(ts, c))
     ELSE St(setRoom(rs, c, [room1 EXCEPT !.phase = "results"]),
             Append(ts, resultsTimer(c)))

\* processVotes(io, room) for room = rs[c], with the draw of choose(candidates)
processVotesWith(rs, ts, c, eliminatedId) ==
  LET room == rs[c]
      i == find(room.players, eliminatedId)
      room1 == IF i # 0
               THEN [room EXCEPT !.players[i].alive = FALSE,
                                 !.eliminated = Append(@, eliminatedId),
                                 !.lastEliminated = eliminatedId]
               ELSE room
      winner == checkWinCondition(room1)
  IN IF winner # NULL
     THEN St(setRoom(rs, c,
               [room1 EXCEPT !.phase = "ended",
                             !.winner = winner,
                             !.winningPlayers = getWinningPlayers(room1, winner)]),
             clearTimer(ts, c))
     ELSE St(setRoom(rs, c, [room1 EXCEPT !.phase = "results"]),
             Append(ts, resultsTimer(c)))

processVotes(rs, ts, c) ==
  LET candidates == candidatesOf(rs[c].votes)
  IN IF candidates = << >>
     THEN {processVotesWith(rs, ts, c, UNDEFINED)}
     ELSE {processVotesWith(rs, ts, c, e) : e \in choose(candidates)}

\* castVote without its check of the target
castVoteError_anyTarget(rs, c, voterId, targetId) ==
  IF c \notin DOMAIN rs THEN "Room not found"
  ELSE IF rs[c].phase # "voting" THEN "Not in voting phase"
  ELSE IF ~foundAlive(rs[c].players, voterId) THEN "You cannot vote"
  ELSE "ok"

\* castVote: "ok" or the message of the Error it throws
castVoteError(rs, c, voterId, targetId) ==
  IF c \notin DOMAIN rs THEN "Room not found"
  ELSE IF rs[c].phase # "voting" THEN "Not in voting phase"
  ELSE IF ~foundAlive(rs[c].players, voterId) THEN "You cannot vote"
  ELSE IF ~foundAlive(rs[c].players, targetId) THEN "Invalid vote target"
  ELSE "ok"

\* a vote that is kept when the voter votes again
putVote_firstWins(votes, voterId, targetId) ==
  [v \in (DOMAIN votes) \cup {voterId} |->
     IF v \in DOMAIN votes THEN votes[v] ELSE targetId]

\* room.votes[voterId] = targetId
putVote(votes, voterId, targetId) ==
  [v \in (DOMAIN votes) \cup {voterId} |-> IF v = voterId THEN targetId ELSE votes[v]]

\* castVote after its throws: the set of outcomes
castVote(rs, ts, c, voterId, targetId) ==
  LET room == [rs[c] EXCEPT !.votes = putVote(@, voterId, targetId)]
      voteCount == Cardinality(DOMAIN room.votes)
      rs1 == setRoom(rs, c, room)
  IN IF voteCount >= Len(alivePlayers(room))
     THEN processVotes(rs1, ts, c)
     ELSE {St(rs1, ts)}

\* the writes of startNextRound(io, room) to the room object
nextRound(room, order) ==
  [room EXCEPT !.round = @ + 1,
               !.phase = "speaking",
               !.votes = << >>,
               !.lastEliminated = NULL,
               !.turnOrder = order,
               !.currentTurnIndex = 0]

\* startNextRound without the filter on alive
startNextRound_allPlayers(rs, ts, c) ==
  LET ids == [i \in DOMAIN rs[c].players |-> rs[c].players[i].id]
  IN {startTurnTimer(setRoom(rs, c, nextRound(rs[c], order)), ts, c) :
        order \in shuffle(ids)}

\* startNextRound for a timeout whose room object is still rs[c]
startNextRound(rs, ts, c) ==
  LET alive == alivePlayers(rs[c])
      ids == [i \in DOMAIN alive |-> alive[i].id]
  IN {startTurnTimer(setRoom(rs, c, nextRound(rs[c], order)), ts, c) :
        order \in shuffle(ids)}

\* resetGame without room.players.forEach(p => p.alive = true)
resetGame_keepsEliminated(rs, ts, c) ==
  St(setRoom(rs, c,
       [rs[c] EXCEPT !.phase = "lobby",
                     !.roles = << >>,
                     !.words = << >>,
                     !.turnOrder = << >>,
                     !.currentTurnIndex = 0,
                     !.turnStartTime = NULL,
                     !.votes = << >>,
                     !.eliminated = << >>,
                     !.lastEliminated = NULL,
                     !.round = 1,
                     !.winner = NULL,
                     !.winningPlayers = {}]),
     clearTimer(ts, c))

\* resetGame without room.roles = {} and room.words = {}
resetGame_keepsRoles(rs, ts, c) ==
  St(setRoom(rs, c,
       [rs[c] EXCEPT !.phase = "lobby",
                     !.turnOrder = << >>,
                     !.currentTurnIndex = 0,
                     !.turnStartTime = NULL,
                     !.votes = << >>,
                     !.eliminated = << >>,
                     !.lastEliminated = NULL,
                     !.round = 1,
                     !.winner = NULL,
                     !.winningPlayers = {},
                     !.players = allAlive(@)]),
     clearTimer(ts, c))

\* resetGame on St(rs, ts)
resetGame(rs, ts, c) ==
  St(setRoom(rs, c,
       [rs[c] EXCEPT !.phase = "lobby",
                     !.roles = << >>,
                     !.words = << >>,
                     !.turnOrder = << >>,
                     !.currentTurnIndex = 0,
                     !.turnStartTime = NULL,
                     !.votes = << >>,
                     !.eliminated = << >>,
                     !.lastEliminated = NULL,
                     !.round = 1,
                     !.winner = NULL,
                     !.winningPlayers = {},
                     !.players = allAlive(@)]),
     clearTimer(ts, c))

\* ---------------------------------------------------------------- handlers
\* one invocation of a socket handler: the state it leaves, "ok" or the message
\* of its error event, and the sockets it emits room data or the error to
Out(st, error, notified) == [st |-> st, error |-> error, notified |-> notified]

\* rooms.set(roomCode, room); roomTimers.set(roomCode, null) in createRoom: a
\* turn-timer handle still held is dropped without clearTimeout, and a room
\* object that had this code lives on only in its results-delay closures
dropHandle(ts, c) ==
  [i \in DOMAIN ts |->
     IF ts[i].code = c THEN [ts[i] EXCEPT !.attached = FALSE] ELSE ts[i]]

\* create-room, with the code generateRoomCode draws
onCreateRoom(rs, ts, socketId, name, roomCode) ==
  IF trim(name) = ""
  THEN {Out(St(rs, ts), "Name is required", {socketId})}
  ELSE {Out(St(setRoom(rs, roomCode, createRoom(roomCode, socketId, trim(name))),
               dropHandle(ts, roomCode)),
            "ok", {socketId})}

\* join-room
onJoinRoom(rs, ts, socketId, roomCode, name) ==
  IF trim(name) = ""
  THEN {Out(St(rs, ts), "Name is required", {socketId})}
  ELSE IF trim(roomCode) = ""
  THEN {Out(St(rs, ts), "Room code is required", {socketId})}
  ELSE LET c == toUpperCase(roomCode)
           err == joinRoomError(rs, c, trim(name))
       IN IF err # "ok"
          THEN {Out(St(rs, ts), err, {socketId})}
          ELSE LET room == joinRoom(rs[c], socketId, trim(name))
               IN {Out(St(setRoom(rs, c, room), ts), "ok",
                       idsOf(room) \cup {socketId})}

\* start-game without the hostId check of the handler
startGameError_anyCaller(rs, c, caller) ==
  IF c \notin DOMAIN rs THEN "Room not found"
  ELSE IF Len(rs[c].players) < 3 THEN "Need at least 3 players to start"
  ELSE "ok"

\* start-game: "ok" or the message of the Error thrown by the handler or by
\* startGame
startGameError(rs, c, caller) ==
  IF c \notin DOMAIN rs THEN "Room not found"
  ELSE IF rs[c].hostId # caller THEN "Only host can start"
  ELSE IF Len(rs[c].players) < 3 THEN "Need at least 3 players to start"
  ELSE "ok"

\* start-game with the writes of startGame ahead of its player count check
onStartGame_writesFirst(rs, ts, socketId, roomCode, mode) ==
  LET err == startGameError(rs, roomCode, socketId)
  IN IF err = "Need at least 3 players to start"
     THEN {Out(St(setRoom(rs, roomCode,
                    [rs[roomCode] EXCEPT !.mode = mode, !.phase = "speaking"]),
                  ts),
               err, {socketId})}
     ELSE IF err # "ok"
     THEN {Out(St(rs, ts), err, {socketId})}
     ELSE {Out(st, "ok", idsOf(st.rooms[roomCode])) :
             st \in startGame(rs, ts, roomCode, mode)}

\* start-game
onStartGame(rs, ts, socketId, roomCode, mode) ==
  LET err == startGameError(rs, roomCode, socketId)
  IN IF err # "ok"
     THEN {Out(St(rs, ts), err, {socketId})}
     ELSE {Out(st, "ok", idsOf(st.rooms[roomCode])) :
             st \in startGame(rs, ts, roomCode, mode)}

\* skip-turn
onSkipTurn(rs, ts, socketId, roomCode) ==
  LET err == skipTurnError(rs, roomCode, socketId)
  IN IF err # "ok"
     THEN {Out(St(rs, ts), err, {socketId})}
     ELSE LET st == advanceTurn(rs, ts, roomCode)
          IN {Out(st, "ok", idsOf(st.rooms[roomCode]))}

\* cast-vote
onCastVote(rs, ts, socketId, roomCode, targetId) ==
  LET err == castVoteError(rs, roomCode, socketId, targetId)
  IN IF err # "ok"
     THEN {Out(St(rs, ts), err, {socketId})}
     ELSE {Out(st, "ok", idsOf(st.rooms[roomCode])) :
             st \in castVote(rs, ts, roomCode, socketId, targetId)}

\* reset-game: "ok" or the message of the Error thrown by the handler or by
\* resetGame
resetGameError(rs, c, caller) ==
  IF c \notin DOMAIN rs THEN "Room not found"
  ELSE IF rs[c].hostId # caller THEN "Only host can reset"
  ELSE "ok"

\* reset-game
onResetGame(rs, ts, socketId, roomCode) ==
  LET err == resetGameError(rs, roomCode, socketId)
  IN IF err # "ok"
     THEN {Out(St(rs, ts), err, {socketId})}
     ELSE LET st == resetGame(rs, ts, roomCode)
          IN {Out(st, "ok", idsOf(st.rooms[roomCode]))}

\* ------------------------------------------------------------------ actions
Init ==
  /\ rooms = << >>
  /\ timers = << >>
  /\ nextConn = 1

resultsPending(ts) == Len(SelectSeq(ts, LAMBDA t : t.kind = "results"))

\* create-room from a new connection, generateRoomCode drawing a code that no
\* live room has; after an error the connection may try again
CreateRoom ==
  /\ nextConn <= MaxConn
  /\ LET id == ConnIds[nextConn]
     IN \E name \in nameInputs(id), c \in Codes \ DOMAIN rooms :
          \E out \in onCreateRoom(rooms, timers, id, name, c) :
            /\ rooms' = out.st.rooms
            /\ timers' = out.st.timers
            /\ nextConn' = IF out.error = "ok" THEN nextConn + 1 ELSE nextConn

\* join-room from a new connection
JoinRoom ==
  /\ nextConn <= MaxConn
  /\ LET id == ConnIds[nextConn]
     IN \E roomCode \in CodeInputs, name \in nameInputs(id) :
          \E out \in onJoinRoom(rooms, timers, id, roomCode, name) :
            /\ rooms' = out.st.rooms
            /\ timers' = out.st.timers
            /\ nextConn' = IF out.error = "ok" THEN nextConn + 1 ELSE nextConn

\* connections that created or joined and are in no room any more: they
\* disconnected, or their room was replaced by a create that drew its code
disconnected ==
  {id \in Ids : Pos(id) < nextConn /\ findRoomByPlayerId(rooms, id) = {}}

\* the connections the game events are taken from: a disconnected socket sends
\* nothing, and no event of a socket that is in no room is accepted
callers == Ids \ disconnected

\* disconnect of a connection that is in a room
Disconnect ==
  \E id \in Ids :
    \E c \in findRoomByPlayerId(rooms, id) :
      LET st == removePlayer(rooms, timers, c, id)
      IN /\ Cardinality(disconnected) < MaxDisconnects
         /\ rooms' = st.rooms
         /\ timers' = st.timers
         /\ UNCHANGED nextConn

StartGame ==
  \E c \in Codes, caller \in callers, mode \in Modes :
    \E out \in onStartGame(rooms, timers, caller, c, mode) :
      /\ rooms' = out.st.rooms
      /\ timers' = out.st.timers
      /\ UNCHANGED nextConn

SkipTurn ==
  \E c \in Codes, caller \in callers :
    \E out \in onSkipTurn(rooms, timers, caller, c) :
      /\ rooms' = out.st.rooms
      /\ timers' = out.st.timers
      /\ UNCHANGED nextConn

\* the turn timeout of a room expires
TurnTimerFires ==
  \E i \in DOMAIN timers :
    /\ canFire(timers, i)
    /\ timers[i].kind = "turn"
    /\ LET st == advanceTurn(rooms, removeAt(timers, i), timers[i].code)
       IN /\ rooms' = st.rooms
          /\ timers' = st.timers
          /\ UNCHANGED nextConn

\* the targets accepted votes are drawn from: the first MaxTargets alive
\* players of the room
targetsTried(room) ==
  LET alive == alivePlayers(room)
  IN {alive[i].id : i \in {j \in DOMAIN alive : j <= MaxTargets}}

CastVote ==
  \E c \in Codes, voterId \in callers, targetId \in Ids :
    \E out \in onCastVote(rooms, timers, voterId, c, targetId) :
      /\ out.error = "ok" =>
           /\ targetId \in targetsTried(rooms[c])
           /\ resultsPending(out.st.timers) <= MaxResultTimers
      /\ rooms' = out.st.rooms
      /\ timers' = out.st.timers
      /\ UNCHANGED nextConn

\* a results-delay timeout expires: startNextRound(io, room) on the captured
\* room object; a room object no longer in the map is written unseen, and the
\* startTurnTimer(io, room.roomCode) at its end looks the code up again
ResultsTimerFires ==
  \E i \in DOMAIN timers :
    /\ canFire(timers, i)
    /\ timers[i].kind = "results"
    /\ LET c == timers[i].code
           ts == removeAt(timers, i)
       IN \E st \in (IF timers[i].attached
                     THEN startNextRound(rooms, ts, c)
                     ELSE {startTurnTimer(rooms, ts, c)}) :
            /\ rooms' = st.rooms
            /\ timers' = st.timers
            /\ UNCHANGED nextConn

ResetGame ==
  \E c \in Codes, caller \in callers :
    \E out \in onResetGame(rooms, timers, caller, c) :
      /\ rooms' = out.st.rooms
      /\ timers' = out.st.timers
      /\ UNCHANGED nextConn

Next ==
  \/ CreateRoom
  \/ JoinRoom
  \/ Disconnect
  \/ StartGame
  \/ SkipTurn
  \/ TurnTimerFires
  \/ CastVote
  \/ ResultsTimerFires
  \/ ResetGame

Spec == Init /\ [][Next]_vars

\* create-room from a new connection, generateRoomCode drawing any code
CreateRoomAnyCode ==
  /\ nextConn <= MaxConn
  /\ LET id == ConnIds[nextConn]
     IN \E name \in nameInputs(id), c \in Codes :
          \E out \in onCreateRoom(rooms, timers, id, name, c) :
            /\ rooms' = out.st.rooms
            /\ timers' = out.st.timers
            /\ nextConn' = IF out.error = "ok" THEN nextConn + 1 ELSE nextConn

NextAnyCode ==
  \/ CreateRoomAnyCode
  \/ JoinRoom
  \/ Disconnect
  \/ StartGame
  \/ SkipTurn
  \/ TurnTimerFires
  \/ CastVote
  \/ ResultsTimerFires
  \/ ResetGame

\* the program without the premise that a drawn code is free
SpecAnyCode == Init /\ [][NextAnyCode]_vars

\* create-room as in CreateRoom, from one connection more
CreateRoomVacate ==
  /\ nextConn <= MaxConnVacate
  /\ LET id == ConnIds[nextConn]
     IN \E name \in nameInputs(id), c \in Codes \ DOMAIN rooms :
          \E out \in onCreateRoom(rooms, timers, id, name, c) :
            /\ rooms' = out.st.rooms
            /\ timers' = out.st.timers
            /\ nextConn' = IF out.error = "ok" THEN nextConn + 1 ELSE nextConn

\* disconnect of a connection that is in a room, in the 5 s after a tally
DisconnectVacate ==
  \E id \in Ids :
    \E c \in findRoomByPlayerId(rooms, id) :
      LET st == removePlayer(rooms, timers, c, id)
      IN /\ resultsPending(timers) > 0
         /\ rooms' = st.rooms
         /\ timers' = st.timers
         /\ UNCHANGED nextConn

NextVacate ==
  \/ CreateRoomVacate
  \/ JoinRoom
  \/ DisconnectVacate
  \/ StartGame
  \/ SkipTurn
  \/ TurnTimerFires
  \/ CastVote
  \/ ResultsTimerFires

\* games without reset in which players only leave while a results delay is
\* pending, as many of them as there are, and one more connection creates
SpecVacate == Init /\ [][NextVacate]_vars

\* create-room and join-room carrying any name, the long ones included
CreateRoomAnyName ==
  /\ nextConn <= MaxConn
  /\ LET id == ConnIds[nextConn]
     IN \E name \in anyNameInputs(id), c \in Codes \ DOMAIN rooms :
          \E out \in onCreateRoom(rooms, timers, id, name, c) :
            /\ rooms' = out.st.rooms
            /\ timers' = out.st.timers
            /\ nextConn' = IF out.error = "ok" THEN nextConn + 1 ELSE nextConn

JoinRoomAnyName ==
  /\ nextConn <= MaxConn
  /\ LET id == ConnIds[nextConn]
     IN \E roomCode \in CodeInputs, name \in anyNameInputs(id) :
          \E out \in onJoinRoom(rooms, timers, id, roomCode, name) :
            /\ rooms' = out.st.rooms
            /\ timers' = out.st.timers
            /\ nextConn' = IF out.error = "ok" THEN nextConn + 1 ELSE nextConn

NextAnyName ==
  \/ CreateRoomAnyName
  \/ JoinRoomAnyName
  \/ Disconnect

\* rooms filling up, with clients other than the home page
SpecAnyName == Init /\ [][NextAnyName]_vars

\* start-game sent while the room is not in speaking
StartGameIdle ==
  \E c \in Codes, caller \in callers, mode \in Modes :
    \E out \in onStartGame(rooms, timers, caller, c, mode) :
      /\ c \in DOMAIN rooms => rooms[c].phase # "speaking"
      /\ rooms' = out.st.rooms
      /\ timers' = out.st.timers
      /\ UNCHANGED nextConn

NextFair ==
  \/ CreateRoom
  \/ JoinRoom
  \/ Disconnect
  \/ StartGameIdle
  \/ SkipTurn
  \/ TurnTimerFires
  \/ CastVote
  \/ ResultsTimerFires
  \/ ResetGame

\* the program with timeouts that expire: a pending timeout whose turn it is
\* to expire does expire (the event loop runs it once its delay is over);
\* clients send what they like, except a start-game that begins speaking anew
\* while the room is speaking
SpecFair ==
  /\ Init /\ [][NextFair]_vars
  /\ WF_vars(TurnTimerFires)
  /\ WF_vars(ResultsTimerFires)

\* join-room sent once more by a connection that is in a room already, under
\* its own name or under another one
JoinRoomAgain ==
  \E id \in callers, roomCode \in CodeInputs :
    \E name \in {NameOf(id), Names[Len(Names)]} :
      \E out \in onJoinRoom(rooms, timers, id, roomCode, name) :
        /\ Pos(id) < nextConn
        /\ rooms' = out.st.rooms
        /\ timers' = out.st.timers
        /\ UNCHANGED nextConn

NextRejoin ==
  \/ CreateRoom
  \/ JoinRoom
  \/ JoinRoomAgain
  \/ Disconnect

\* rooms filling up, with connections that send join-room more than once
SpecRejoin == Init /\ [][NextRejoin]_vars

\* start-game sent while no game is running: in lobby or after ended
StartGameFresh ==
  \E c \in Codes, caller \in callers, mode \in Modes :
    \E out \in onStartGame(rooms, timers, caller, c, mode) :
      /\ c \in DOMAIN rooms => rooms[c].phase \in {"lobby", "ended"}
      /\ rooms' = out.st.rooms
      /\ timers' = out.st.timers
      /\ UNCHANGED nextConn

\* an accepted vote of a player who has not voted in this voting phase
CastFirstVote ==
  \E c \in DOMAIN rooms :
    /\ rooms[c].phase = "voting"
    /\ \E voterId \in callers \ DOMAIN rooms[c].votes :
         \E targetId \in targetsTried(rooms[c]) :
           \E out \in onCastVote(rooms, timers, voterId, c, targetId) :
             /\ out.error = "ok"
             /\ rooms' = out.st.rooms
             /\ timers' = out.st.timers
             /\ UNCHANGED nextConn

NextNoLeave ==
  \/ CreateRoom
  \/ JoinRoom
  \/ StartGameFresh
  \/ SkipTurn
  \/ TurnTimerFires
  \/ CastVote
  \/ ResultsTimerFires

\* games played without a departure, a reset or a restart, in which the
\* timeouts expire and every player who can vote does vote
SpecNoLeave ==
  /\ Init /\ [][NextNoLeave]_vars
  /\ WF_vars(TurnTimerFires)
  /\ WF_vars(ResultsTimerFires)
  /\ WF_vars(CastFirstVote)

\* ------------------------------------------------------------- vocabulary
Roles == {"citizen", "infiltrator", "agent", "spy"}
oddRole(mode) == IF mode = "infiltrator" THEN "infiltrator" ELSE "spy"
regularRole(mode) == IF mode = "infiltrator" THEN "citizen" ELSE "agent"
oddSide(mode) == IF mode = "infiltrator" THEN "infiltrator" ELSE "spy"
regularSide(mode) == IF mode = "infiltrator" THEN "citizens" ELSE "agents"

aliveIds(room) == {room.players[i].id : i \in {j \in DOMAIN room.players : room.players[j].alive}}
aliveCountOf(room) == Len(alivePlayers(room))
oddIds(room) == {id \in DOMAIN room.roles : room.roles[id] = oddRole(room.mode)}
AllWords == getRandomWord \cup {wp.mainWord : wp \in getWordPair}
              \cup {wp.similarWord : wp \in getWordPair} \cup {NULL}

\* a step in which the room with code c takes the tally of its votes
tallyStep(c) ==
  /\ c \in DOMAIN rooms /\ c \in DOMAIN rooms'
  /\ rooms[c].phase = "voting"
  /\ rooms'[c].phase \in {"results", "ended"}

\* ------------------------------------------------------------------ C1
\* room with one entry of roles or of words changed, for a player other than v
variantsFor(room, v) ==
  {[room EXCEPT !.roles[u] = r] : u \in (DOMAIN room.roles) \ {v}, r \in Roles}
    \cup {[room EXCEPT !.words[u] = w] : u \in (DOMAIN room.words) \ {v}, w \in AllWords}

\* the fields of a view other than the viewer's own role and word
sharedPart(view) == [f \in (DOMAIN view) \ {"myRole", "myWord"} |-> view[f]]

\* C1: information partitioning. The view of a room for viewer v has no roles
\* or words map and shows v's role and word; it is the same for any room that
\* differs only in the role or word of a player other than v; the views of one
\* room for two viewers agree on every field but myRole / myWord; and the
\* payload a broadcast sends to a player is that player's view.
C1_ViewHidesOthers ==
  \A c \in DOMAIN rooms :
    LET room == rooms[c]
    IN /\ \A v \in Ids :
            LET view == getClientRoom(room, v)
            IN /\ DOMAIN view = (RoomFields \ {"roles", "words"}) \cup {"myRole", "myWord"}
               /\ view.myRole = lookup(room.roles, v)
               /\ view.myWord = lookup(room.words, v)
               /\ \A room2 \in variantsFor(room, v) : getClientRoom(room2, v) = view
               /\ sharedPart(view) = sharedPart(getClientRoom(room, room.hostId))
       /\ \A m \in broadcastRoomUpdate(room) :
            /\ "roles" \notin DOMAIN m.data /\ "words" \notin DOMAIN m.data
            /\ \A u \in DOMAIN room.roles :
                 u # m.to =>
                   \A m2 \in broadcastRoomUpdate([room EXCEPT !.roles[u] = "spy",
                                                             !.words[u] = "pear"]) :
                     m2.to = m.to => m2.data = m.data

\* a started game in which two players hold different roles and each view
\* shows its own
C1_Witness ==
  \E c \in DOMAIN rooms :
    \E v, u \in idsOf(rooms[c]) :
      /\ rooms[c].phase = "voting"
      /\ v \in DOMAIN rooms[c].roles /\ u \in DOMAIN rooms[c].roles
      /\ rooms[c].roles[v] # rooms[c].roles[u]
      /\ getClientRoom(rooms[c], v).myRole = "spy"
      /\ getClientRoom(rooms[c], u).myRole = "agent"
      /\ getClientRoom(rooms[c], v).myWord # getClientRoom(rooms[c], u).myWord

\* ------------------------------------------------------------------ C2
\* C2: in speaking, voting, results and ended, roles gives the odd role of the
\* room's mode to exactly one id and the regular role of that mode to every
\* other player of the room.
C2_OneOddRole ==
  \A c \in DOMAIN rooms :
    LET room == rooms[c]
    IN room.phase \in {"speaking", "voting", "results", "ended"} =>
         /\ Cardinality(oddIds(room)) = 1
         /\ \A id \in idsOf(room) \ oddIds(room) :
              id \in DOMAIN room.roles /\ room.roles[id] = regularRole(room.mode)

\* ------------------------------------------------------------------ C3
\* C3: ended is terminal. A step from a room in phase ended leaves phase,
\* winner and winningPlayers as they are, unless it is the host's reset (phase
\* lobby) or a new start (phase speaking with winner cleared) or removes the room.
C3_EndedTerminal ==
  [][\A c \in DOMAIN rooms :
       (rooms[c].phase = "ended" /\ c \in DOMAIN rooms') =>
          \/ /\ rooms'[c].phase = "ended"
             /\ rooms'[c].winner = rooms[c].winner
             /\ rooms'[c].winningPlayers = rooms[c].winningPlayers
          \/ rooms'[c].phase = "lobby"
          \/ /\ rooms'[c].phase = "speaking"
             /\ rooms'[c].winner = NULL
             /\ rooms'[c].round = 1]_vars

\* ------------------------------------------------------------------ C4
\* C4: winner is non-null and winningPlayers non-empty exactly when phase is
\* ended; in every other phase winner is null and winningPlayers is empty.
C4_WinnerIffEnded ==
  \A c \in DOMAIN rooms :
    LET room == rooms[c]
    IN IF room.phase = "ended"
       THEN room.winner # NULL /\ room.winningPlayers # {}
       ELSE room.winner = NULL /\ room.winningPlayers = {}

\* ------------------------------------------------------------------ C5
\* a room as resetGame leaves it
freshLobby(room) ==
  /\ room.phase = "lobby"
  /\ room.roles = << >> /\ room.words = << >>
  /\ room.votes = << >> /\ room.eliminated = << >>
  /\ room.round = 1

\* C5: after a reset the room stays in lobby with empty roles / words / votes /
\* eliminated and round 1 until the next successful start (which assigns
\* roles); no timer moves it.
C5_ResetStaysLobby ==
  [][\A c \in DOMAIN rooms :
       (freshLobby(rooms[c]) /\ c \in DOMAIN rooms') =>
          \/ freshLobby(rooms'[c])
          \/ /\ rooms'[c].phase = "speaking"
             /\ rooms'[c].round = 1
             /\ DOMAIN rooms'[c].roles = idsOf(rooms'[c])]_vars

\* ------------------------------------------------------------------ C6
\* C6: every change of phase is lobby -> speaking, speaking -> voting,
\* voting -> results, voting -> ended, results -> speaking with round + 1, or
\* any phase -> lobby.
C6_PhaseChanges ==
  [][\A c \in (DOMAIN rooms) \cap (DOMAIN rooms') :
       LET p == rooms[c].phase
           q == rooms'[c].phase
       IN p # q =>
            \/ p = "lobby" /\ q = "speaking"
            \/ p = "speaking" /\ q = "voting"
            \/ p = "voting" /\ q \in {"results", "ended"}
            \/ p = "results" /\ q = "speaking" /\ rooms'[c].round = rooms[c].round + 1
            \/ q = "lobby"]_vars

\* ------------------------------------------------------------------ C7
\* C7: while phase is voting the number of recorded votes is strictly smaller
\* than the number of alive players: the room never rests in voting with every
\* alive player's vote recorded, also after a player leaves during voting.
C7_VotesBelowAlive ==
  \A c \in DOMAIN rooms :
    LET room == rooms[c]
    IN room.phase = "voting" => Cardinality(DOMAIN room.votes) < aliveCountOf(room)

\* ------------------------------------------------------------------ C8
voteCountOf(votes, t) == Cardinality({v \in DOMAIN votes : votes[v] = t})
votedTargets(votes) == {votes[v] : v \in DOMAIN votes}
maxTargets(votes) ==
  {t \in votedTargets(votes) :
     \A u \in votedTargets(votes) : voteCountOf(votes, t) >= voteCountOf(votes, u)}

\* C8: in a room whose votes were tallied (phase results or ended, votes and
\* lastEliminated are those of the tally) the candidates the tally draws from
\* are exactly the targets with the maximal vote count, the eliminated player
\* is one of them, and a single maximal target is the one eliminated whenever
\* it could be found in the room.
C8_TallyPicksMax ==
  \A c \in DOMAIN rooms :
    LET room == rooms[c]
    IN room.phase \in {"results", "ended"} =>
         /\ Range(candidatesOf(room.votes)) = maxTargets(room.votes)
         /\ room.lastEliminated # NULL => room.lastEliminated \in maxTargets(room.votes)
         /\ \A t \in maxTargets(room.votes) :
              maxTargets(room.votes) = {t} =>
                \/ room.lastEliminated = t
                \/ room.lastEliminated = NULL /\ t \notin idsOf(room)

\* a tie of two targets at 2 votes each, broken for the second candidate
C8_Witness ==
  \E c \in DOMAIN rooms :
    LET room == rooms[c]
    IN /\ room.phase \in {"results", "ended"}
       /\ Cardinality(maxTargets(room.votes)) = 2
       /\ \A t \in maxTargets(room.votes) : voteCountOf(room.votes, t) = 2
       /\ Len(candidatesOf(room.votes)) = 2
       /\ room.lastEliminated = candidatesOf(room.votes)[2]

\* ------------------------------------------------------------------ C9
\* the winner the claim expects for the room as the tally leaves it, the odd
\* side winning when twoLeft holds of the number of alive players
expectedWinner(room, twoLeft) ==
  IF oddIds(room) \cap aliveIds(room) = {} THEN regularSide(room.mode)
  ELSE IF twoLeft THEN oddSide(room.mode)
  ELSE NULL

winnerRole(room) ==
  IF room.winner = regularSide(room.mode) THEN regularRole(room.mode)
  ELSE oddRole(room.mode)

\* what a tally step must leave in room for the expected winner w
tallyOutcome(room, w) ==
  /\ room.winner = w
  /\ room.phase = (IF w = NULL THEN "results" ELSE "ended")
  /\ room.winningPlayers =
       (IF w = NULL THEN {}
        ELSE {id \in DOMAIN room.roles : room.roles[id] = winnerRole(room)})

threePlayerGame(room) ==
  /\ Len(room.players) = 3
  /\ DOMAIN room.roles = idsOf(room)
  /\ Cardinality(idsOf(room)) = 3

\* C10: in a game started with exactly 3 players and no departure the first
\* tally ends the game: the phase goes from voting to ended, never to results,
\* and the winner is the regular side if the eliminated player was the
\* odd-one-out, the odd side if not.
C10_ThreePlayersEnd ==
  [][\A c \in Codes :
       (tallyStep(c) /\ threePlayerGame(rooms[c]) /\ rooms[c].eliminated = << >>) =>
          /\ rooms'[c].phase = "ended"
          /\ Len(rooms'[c].eliminated) = 1
          /\ rooms'[c].winner =
               (IF rooms'[c].eliminated[1] \in oddIds(rooms'[c])
                THEN regularSide(rooms'[c].mode)
                ELSE oddSide(rooms'[c].mode))]_vars

\* a 3-player game ended by its first tally with the odd side winning
C10_Witness ==
  \E c \in DOMAIN rooms :
    LET room == rooms[c]
    IN /\ threePlayerGame(room)
       /\ room.phase = "ended"
       /\ Len(room.eliminated) = 1
       /\ room.round = 1
       /\ room.winner = oddSide(room.mode)

\* ----------------------------------------------------------------- C11
\* a name is taken in a room when a current player has it, ignoring case
nameTaken(room, name) ==
  \E i \in DOMAIN room.players :
    toLowerCase(room.players[i].name) = toLowerCase(name)

\* what a join-room request with a name and a room code must answer
joinAnswer(rs, roomCode, name) ==
  LET c == toUpperCase(roomCode)
  IN IF c \notin DOMAIN rs THEN "Room not found"
     ELSE IF rs[c].phase # "lobby" THEN "Game already in progress"
     ELSE IF nameTaken(rs[c], trim(name)) THEN "Name already taken"
     ELSE "ok"

C11_Requests ==
  \A socketId \in Ids, roomCode \in CodeInputs :
    \A name \in nameInputs(socketId) :
    \A out \in onJoinRoom(rooms, timers, socketId, roomCode, name) :
      IF trim(name) = "" \/ trim(roomCode) = ""
      THEN out.error # "ok" /\ out.st = St(rooms, timers)
      ELSE /\ out.error = joinAnswer(rooms, roomCode, name)
           /\ out.error # "ok" => out.st = St(rooms, timers)
           /\ out.error = "ok" =>
                /\ out.st.timers = timers
                /\ out.st.rooms =
                     setRoom(rooms, toUpperCase(roomCode),
                       [rooms[toUpperCase(roomCode)] EXCEPT !.players =
                          Append(@, [id |-> socketId, name |-> trim(name),
                                     alive |-> TRUE])])

C11_NamesDistinct ==
  \A c \in DOMAIN rooms :
    \A i, j \in DOMAIN rooms[c].players :
      i # j => toLowerCase(rooms[c].players[i].name)
                 # toLowerCase(rooms[c].players[j].name)

C11_GrowsInLobby ==
  \A c \in (DOMAIN rooms) \cap (DOMAIN rooms') :
    Len(rooms'[c].players) > Len(rooms[c].players) =>
      /\ rooms[c].phase = "lobby"
      /\ rooms'[c].phase = "lobby"
      /\ Len(rooms'[c].players) = Len(rooms[c].players) + 1
      /\ SubSeq(rooms'[c].players, 1, Len(rooms[c].players)) = rooms[c].players
      /\ ~nameTaken(rooms[c], rooms'[c].players[Len(rooms'[c].players)].name)

\* C11: join-room succeeds exactly when the room exists, is in lobby and no
\* current player has the name ignoring case, and otherwise answers room not
\* found / game in progress / name taken and changes nothing (a blank name or
\* code is refused before that); a player list only grows by one joiner while
\* the room is in lobby, and the names of a room are pairwise distinct
\* ignoring case
C11_JoinContract ==
  /\ []C11_Requests
  /\ []C11_NamesDistinct
  /\ [][C11_GrowsInLobby]_vars

\* a lobby of two players, one named Ann, that another connection asks to
\* join as " ANN " and is answered that the name is taken
C11_Witness ==
  \E c \in DOMAIN rooms :
    /\ rooms[c].phase = "lobby"
    /\ Len(rooms[c].players) = 2
    /\ \E i \in DOMAIN rooms[c].players : rooms[c].players[i].name = "Ann"
    /\ nextConn <= MaxConn
    /\ \A out \in onJoinRoom(rooms, timers, ConnIds[nextConn], "qkjtz", " ANN ") :
         out.error = "Name already taken"

\* ----------------------------------------------------------------- C12
\* C12: start-game takes effect only for the current host of a room of at
\* least 3 players; any other caller gets "Only host can start", a smaller
\* room "Need at least 3 players to start", and nothing changes. A start
\* leaves phase speaking, round 1, the same players all alive, votes and
\* eliminated empty, lastEliminated and winner null and currentTurnIndex 0
C12_StartContract ==
  \A caller \in Ids, c \in Codes, mode \in Modes :
    \A out \in onStartGame(rooms, timers, caller, c, mode) :
      IF c \notin DOMAIN rooms
      THEN out.error = "Room not found" /\ out.st = St(rooms, timers)
      ELSE IF rooms[c].hostId # caller
      THEN out.error = "Only host can start" /\ out.st = St(rooms, timers)
      ELSE IF Len(rooms[c].players) < 3
      THEN /\ out.error = "Need at least 3 players to start"
           /\ out.st = St(rooms, timers)
      ELSE LET room == out.st.rooms[c]
           IN /\ out.error = "ok"
              /\ room.phase = "speaking"
              /\ room.round = 1
              /\ room.players = allAlive(rooms[c].players)
              /\ room.votes = << >>
              /\ room.eliminated = << >>
              /\ room.lastEliminated = NULL
              /\ room.winner = NULL
              /\ room.currentTurnIndex = 0
              /\ room.hostId = caller

\* a game of 4 players started again while the results delay of the previous
\* tally is pending: the eliminated player is alive again, and the other
\* players are refused when they send start-game
C12_Witness ==
  \E c \in DOMAIN rooms :
    /\ rooms[c].phase = "speaking"
    /\ rooms[c].round = 1
    /\ rooms[c].currentTurnIndex = 0
    /\ Len(rooms[c].players) = 4
    /\ rooms[c].players = allAlive(rooms[c].players)
    /\ rooms[c].eliminated = << >>
    /\ timers = <<resultsTimer(c), turnTimer(c)>>
    /\ \A caller \in idsOf(rooms[c]) \ {rooms[c].hostId} :
         \A out \in onStartGame(rooms, timers, caller, c, "spy") :
           out.error = "Only host can start"

\* ----------------------------------------------------------------- C13
\* room.turnOrder[room.currentTurnIndex], UNDEFINED past the end
currentSpeaker(room) ==
  IF room.currentTurnIndex + 1 \in DOMAIN room.turnOrder
  THEN room.turnOrder[room.currentTurnIndex + 1] ELSE UNDEFINED

\* the states the expiry of the pending turn timer of room c can lead to
expiryOutcomes(c) ==
  {advanceTurn(rooms, removeAt(timers, i), c) :
     i \in {j \in DOMAIN timers : timers[j] = turnTimer(c)}}

\* C13: skip-turn is refused with an error and no change unless the room is
\* in speaking and the caller is turnOrder[currentTurnIndex]; an accepted
\* skip leaves exactly the state the expiry of the room's turn timer leaves
C13_SkipContract ==
  \A caller \in Ids, c \in Codes :
    \A out \in onSkipTurn(rooms, timers, caller, c) :
      IF c \notin DOMAIN rooms
      THEN out.error = "Room not found" /\ out.st = St(rooms, timers)
      ELSE IF rooms[c].phase # "speaking"
      THEN out.error = "Not in speaking phase" /\ out.st = St(rooms, timers)
      ELSE IF currentSpeaker(rooms[c]) # caller
      THEN out.error = "Not your turn" /\ out.st = St(rooms, timers)
      ELSE /\ out.error = "ok"
           /\ expiryOutcomes(c) = {out.st}

\* the second turn of a round: the speaker's skip is accepted and moves the
\* room on, the skip of every other player is refused
C13_Witness ==
  \E c \in DOMAIN rooms :
    /\ rooms[c].phase = "speaking"
    /\ rooms[c].currentTurnIndex = 1
    /\ currentSpeaker(rooms[c]) \in idsOf(rooms[c])
    /\ \A out \in onSkipTurn(rooms, timers, currentSpeaker(rooms[c]), c) :
         out.error = "ok" /\ out.st.rooms[c].currentTurnIndex = 2
    /\ \A caller \in idsOf(rooms[c]) \ {currentSpeaker(rooms[c])} :
         \A out \in onSkipTurn(rooms, timers, caller, c) :
           out.error = "Not your turn"

\* ----------------------------------------------------------------- C14
C14_Requests ==
  \A voterId \in Ids, c \in Codes, targetId \in Ids :
    \A out \in onCastVote(rooms, timers, voterId, c, targetId) :
      IF c \notin DOMAIN rooms
      THEN out.error = "Room not found" /\ out.st = St(rooms, timers)
      ELSE IF rooms[c].phase # "voting"
      THEN out.error = "Not in voting phase" /\ out.st = St(rooms, timers)
      ELSE IF voterId \notin aliveIds(rooms[c])
      THEN out.error = "You cannot vote" /\ out.st = St(rooms, timers)
      ELSE IF targetId \notin aliveIds(rooms[c])
      THEN out.error = "Invalid vote target" /\ out.st = St(rooms, timers)
      ELSE /\ out.error = "ok"
           /\ out.st.rooms[c].votes = putVote(rooms[c].votes, voterId, targetId)

\* a vote that a step records or changes
C14_Recorded ==
  \A c \in (DOMAIN rooms) \cap (DOMAIN rooms') :
    \A v \in DOMAIN rooms'[c].votes :
      (v \notin DOMAIN rooms[c].votes \/ rooms[c].votes[v] # rooms'[c].votes[v]) =>
        /\ rooms[c].phase = "voting"
        /\ v \in aliveIds(rooms[c])
        /\ rooms'[c].votes[v] \in aliveIds(rooms[c])

\* C14: cast-vote is accepted only in voting, from a current player who is
\* alive, for a current player who is alive; otherwise it is refused with an
\* error and nothing changes. Every vote a step records has an alive player of
\* the room as its key and as its value at that step
C14_VoteContract ==
  /\ []C14_Requests
  /\ [][C14_Recorded]_vars

\* voting in round 2 with one vote recorded and one player eliminated: the
\* vote of the eliminated player and a vote for that player are refused
C14_Witness ==
  \E c \in DOMAIN rooms :
    LET room == rooms[c]
    IN /\ room.phase = "voting"
       /\ room.round = 2
       /\ Cardinality(DOMAIN room.votes) = 1
       /\ \E dead \in idsOf(room) \ aliveIds(room), live \in aliveIds(room) :
            /\ \A out \in onCastVote(rooms, timers, dead, c, live) :
                 out.error = "You cannot vote"
            /\ \A out \in onCastVote(rooms, timers, live, c, dead) :
                 out.error = "Invalid vote target"

\* ----------------------------------------------------------------- C15
\* a room as createRoom builds it, holding the given players
freshWith(roomCode, hostId, players) ==
  [createRoom(roomCode, hostId, NULL) EXCEPT !.players = players]

\* C15: reset-game is accepted only from the current host, in every phase. It
\* keeps roomCode, hostId, mode and the players in their order, makes every
\* player alive and leaves every other field as createRoom sets it; a start
\* after it has the outcomes of a start in a fresh room of these players, one
\* of them the odd-one-out
C15_ResetContract ==
  \A caller \in Ids, c \in Codes :
    \A out \in onResetGame(rooms, timers, caller, c) :
      IF c \notin DOMAIN rooms
      THEN out.error = "Room not found" /\ out.st = St(rooms, timers)
      ELSE IF rooms[c].hostId # caller
      THEN out.error = "Only host can reset" /\ out.st = St(rooms, timers)
      ELSE LET room == out.st.rooms[c]
               fresh == freshWith(c, caller, allAlive(rooms[c].players))
           IN /\ out.error = "ok"
              /\ room.roomCode = rooms[c].roomCode
              /\ room.hostId = rooms[c].hostId
              /\ room.players = allAlive(rooms[c].players)
              /\ room.mode = rooms[c].mode
              /\ room = [fresh EXCEPT !.mode = rooms[c].mode]
              /\ out.st.rooms = setRoom(rooms, c, room)
              /\ Len(room.players) >= 3 =>
                   \A mode \in Modes :
                     /\ startGame(out.st.rooms, out.st.timers, c, mode)
                          = startGame(setRoom(rooms, c, fresh), out.st.timers, c, mode)
                     /\ \A st \in startGame(out.st.rooms, out.st.timers, c, mode) :
                          /\ Cardinality(oddIds(st.rooms[c])) = 1
                          /\ oddIds(st.rooms[c]) \subseteq idsOf(room)

\* a lobby of 4 players in spy mode with the results delay of a tally still
\* pending: the host reset the game in results
C15_Witness ==
  \E c \in DOMAIN rooms :
    /\ rooms[c].phase = "lobby"
    /\ rooms[c].mode = "spy"
    /\ Len(rooms[c].players) = 4
    /\ timers = <<resultsTimer(c)>>
    /\ rooms[c] = [freshWith(c, rooms[c].hostId, allAlive(rooms[c].players))
                     EXCEPT !.mode = "spy"]
    /\ \A caller \in idsOf(rooms[c]) \ {rooms[c].hostId} :
         \A out \in onResetGame(rooms, timers, caller, c) :
           out.error = "Only host can reset"

\* ----------------------------------------------------------------- C16
\* an invocation that ends in an error wrote nothing and told only its caller
rejectedClean(out, caller) ==
  out.error # "ok" => out.st = St(rooms, timers) /\ out.notified = {caller}

\* C16: for create, join, start, skip-turn, cast-vote and reset, every
\* invocation that ends in an error leaves every room and every timer as they
\* were, and its error event goes to the caller only
C16_NoPartialEffect ==
  \A caller \in Ids :
    /\ \A name \in nameInputs(caller), c \in Codes :
         \A out \in onCreateRoom(rooms, timers, caller, name, c) :
           rejectedClean(out, caller)
    /\ \A name \in nameInputs(caller), roomCode \in CodeInputs :
         \A out \in onJoinRoom(rooms, timers, caller, roomCode, name) :
           rejectedClean(out, caller)
    /\ \A c \in Codes, mode \in Modes :
         \A out \in onStartGame(rooms, timers, caller, c, mode) :
           rejectedClean(out, caller)
    /\ \A c \in Codes :
         \A out \in onSkipTurn(rooms, timers, caller, c) :
           rejectedClean(out, caller)
    /\ \A c \in Codes, targetId \in Ids :
         \A out \in onCastVote(rooms, timers, caller, c, targetId) :
           rejectedClean(out, caller)
    /\ \A c \in Codes :
         \A out \in onResetGame(rooms, timers, caller, c) :
           rejectedClean(out, caller)

\* a lobby of two players: the host's start-game gets past the handler and is
\* thrown out by startGame, and each other event has an input that is refused
C16_Witness ==
  \E c \in DOMAIN rooms :
    LET room == rooms[c]
        host == room.hostId
    IN /\ room.phase = "lobby"
       /\ Len(room.players) = 2
       /\ \A out \in onStartGame(rooms, timers, host, c, "spy") :
            out.error = "Need at least 3 players to start"
       /\ \A out \in onCreateRoom(rooms, timers, host, "  ", c) :
            out.error = "Name is required"
       /\ \A out \in onJoinRoom(rooms, timers, host, "", room.players[1].name) :
            out.error = "Room code is required"
       /\ \A out \in onSkipTurn(rooms, timers, host, c) :
            out.error = "Not in speaking phase"
       /\ \A out \in onCastVote(rooms, timers, host, c, host) :
            out.error = "Not in voting phase"
       /\ \A other \in idsOf(room) \ {host} :
            \A out \in onResetGame(rooms, timers, other, c) :
              out.error = "Only host can reset"

\* ----------------------------------------------------------------- C17
C17_HostIsPlayer ==
  \A c \in DOMAIN rooms : rooms[c].hostId \in idsOf(rooms[c])

\* a step after which the host of room c is no player under that code: the
\* host left and the others stay in their order, or a create took the code
C17_HostLeaves ==
  \A c \in (DOMAIN rooms) \cap (DOMAIN rooms') :
    rooms[c].hostId \notin idsOf(rooms'[c]) =>
      /\ rooms'[c].hostId = rooms'[c].players[1].id
      /\ \/ rooms'[c].players =
              SelectSeq(rooms[c].players, LAMBDA p : p.id # rooms[c].hostId)
         \/ idsOf(rooms'[c]) \cap idsOf(rooms[c]) = {}

\* C17: the hostId of every room is the id of one of its current players;
\* in the step in which the host leaves and others remain, hostId becomes the
\* id of the earliest-joined remaining player
C17_HostAmongPlayers ==
  /\ []C17_HostIsPlayer
  /\ [][C17_HostLeaves]_vars

\* a started game whose creator s1 holds a role but is gone: s2, the next to
\* have joined, is host of the players that remain
C17_Witness ==
  \E c \in DOMAIN rooms :
    /\ "s1" \in DOMAIN rooms[c].roles
    /\ "s1" \notin idsOf(rooms[c])
    /\ Len(rooms[c].players) >= 2
    /\ rooms[c].players[1].id = "s2"
    /\ rooms[c].hostId = "s2"

\* ----------------------------------------------------------------- C19
\* a step in which the next connection creates the room with code c
createStep(c) ==
  /\ nextConn' = nextConn + 1
  /\ c \in DOMAIN rooms'
  /\ Len(rooms'[c].players) = 1
  /\ rooms'[c] = createRoom(c, ConnIds[nextConn], rooms'[c].players[1].name)

\* C19: a create yields a room under a code that no live room has, and leaves
\* every live room and every timer as they were
C19_CreateKeepsRooms ==
  [][\A c \in Codes :
       createStep(c) =>
         /\ c \notin DOMAIN rooms
         /\ timers' = timers
         /\ \A d \in DOMAIN rooms : d \in DOMAIN rooms' /\ rooms'[d] = rooms[d]]_vars

\* ----------------------------------------------------------------- C20
\* the pending timeouts that were armed under code c
timersOf(c) == SelectSeq(timers, LAMBDA t : t.code = c)

\* C20: at most one timeout (turn timer or results delay) is pending for a
\* room at any time
C20_OneTimerPerRoom ==
  \A c \in DOMAIN rooms : Len(timersOf(c)) <= 1

\* ----------------------------------------------------------------- C18
C18_NoEmptyRoom ==
  \A c \in DOMAIN rooms : Len(rooms[c].players) >= 1

\* the step in which the last player of room c leaves removes the room and its
\* turn timer, and join-room for the code answers room not found
C18_LastLeaves ==
  \A c \in DOMAIN rooms :
    c \notin DOMAIN rooms' =>
      /\ Len(rooms[c].players) = 1
      /\ \A i \in DOMAIN timers' : timers'[i] # turnTimer(c)
      /\ \A socketId \in Ids :
           \A out \in onJoinRoom(rooms', timers', socketId, c, NameOf(socketId)) :
             out.error = "Room not found"

\* the pending timeouts that were armed for a room that has been removed
removedRoomTimers(ts) == SelectSeq(ts, LAMBDA t : ~t.attached)

\* the expiry of a timeout armed for a removed room changes no registered room
C18_DeadTimerIdle ==
  Len(removedRoomTimers(timers')) < Len(removedRoomTimers(timers)) =>
    rooms' = rooms

\* C18: every registered room has a player; the step in which the last player
\* leaves removes the room and cancels its turn timer, the code is then not
\* found, and no timeout armed for that room changes a registered room later
C18_EmptyRoomGone ==
  /\ []C18_NoEmptyRoom
  /\ [][C18_LastLeaves]_vars
  /\ [][C18_DeadTimerIdle]_vars


\* ------------------------------------------------------------------- C21
\* the turn timeouts that may expire in this state
expiringTurnTimers == {i \in DOMAIN timers : canFire(timers, i) /\ timers[i].kind = "turn"}

\* the state after the expiry of the turn timeout at position i
afterExpiry(i) == advanceTurn(rooms, removeAt(timers, i), timers[i].code)

\* C21: the expiry of a turn timeout changes a room only if the room of its
\* code exists, is in speaking and the timeout is the one armed for the
\* room's current turn; in any other state the expiry changes no room
C21_ExpiryOnlyWhileSpeaking ==
  \A i \in expiringTurnTimers :
    afterExpiry(i).rooms # rooms =>
      /\ timers[i].code \in DOMAIN rooms
      /\ rooms[timers[i].code].phase = "speaking"
      /\ timers[i].attached


\* ------------------------------------------------------------------- C22
\* the number of pending turn timeouts whose handle roomTimers holds for c
armedFor(ts, c) ==
  Len(SelectSeq(ts, LAMBDA t : t.kind = "turn" /\ t.code = c /\ t.attached))

\* st is the state after one advance of the current turn of room c: the index
\* is one higher, and the only turn timeout left for c is the one armed for
\* the next turn, none when the room went to voting
advancedOnce(c, st) ==
  /\ st.rooms[c].currentTurnIndex = rooms[c].currentTurnIndex + 1
  /\ st.rooms[c].phase \in {"speaking", "voting"}
  /\ armedFor(st.timers, c) = IF st.rooms[c].phase = "speaking" THEN 1 ELSE 0

\* C22: a room in speaking has exactly one turn timeout armed, and both an
\* accepted skip-turn and the expiry of that timeout advance the turn once:
\* currentTurnIndex grows by 1 and the timeout of the turn that ended is no
\* longer pending, so neither can advance the same turn a second time
C22_AdvancedOnce ==
  \A c \in DOMAIN rooms :
    rooms[c].phase = "speaking" =>
      /\ armedFor(timers, c) = 1
      /\ \A caller \in Ids :
           \A out \in onSkipTurn(rooms, timers, caller, c) :
             out.error = "ok" => advancedOnce(c, out.st)
      /\ \A i \in expiringTurnTimers :
           timers[i].code = c /\ timers[i].attached => advancedOnce(c, afterExpiry(i))

\* a skip-turn or an expiry has ended the last turn of a round: the room is in
\* voting with the index past the order and no turn timeout left
C22_Witness ==
  \E c \in DOMAIN rooms :
    /\ rooms[c].phase = "voting"
    /\ rooms[c].currentTurnIndex = Len(rooms[c].turnOrder)
    /\ rooms[c].currentTurnIndex >= 3
    /\ armedFor(timers, c) = 0


\* ------------------------------------------------------------------- C23
GamePhases == {"speaking", "voting", "results", "ended"}

\* the number of players the running game of the room started with: startGame
\* gives every player of the room a role
playersAtStart(room) == Cardinality(DOMAIN room.roles)

isPrefix(s, t) == Len(s) <= Len(t) /\ \A i \in DOMAIN s : t[i] = s[i]

\* what startGame leaves behind: first turn of round 1, nobody eliminated
justStarted(room) ==
  /\ room.phase = "speaking" /\ room.round = 1 /\ room.currentTurnIndex = 0
  /\ room.eliminated = << >>
  /\ \A i \in DOMAIN room.players : room.players[i].alive

\* the room of code c stays in its running game over the step: it is in a game
\* phase before and after, and the step is neither a start nor the replacement
\* of the room
sameGame(c) ==
  /\ c \in DOMAIN rooms /\ c \in DOMAIN rooms'
  /\ rooms[c].phase \in GamePhases /\ rooms'[c].phase \in GamePhases
  /\ rooms'[c].roles = rooms[c].roles
  /\ rooms'[c].hostId \in idsOf(rooms[c])
  /\ ~(justStarted(rooms'[c]) /\ rooms'[c] # rooms[c])

\* within one game the number of alive players never increases and eliminated
\* only grows at its end
C23_AliveNeverGrows ==
  [][\A c \in Codes :
       sameGame(c) =>
         /\ aliveCountOf(rooms'[c]) <= aliveCountOf(rooms[c])
         /\ isPrefix(rooms[c].eliminated, rooms'[c].eliminated)]_vars

\* in a started game the length of eliminated is the number of players at the
\* start minus the number of alive players
C23_EliminatedCount ==
  \A c \in DOMAIN rooms :
    rooms[c].phase \in GamePhases =>
      Len(rooms[c].eliminated) = playersAtStart(rooms[c]) - aliveCountOf(rooms[c])

\* C23: within one game the alive count never increases, eliminated only grows
\* by appending, and in every state of a started game the length of eliminated
\* equals the number of players at start minus the number of alive players
C23_EliminationHistory == []C23_EliminatedCount /\ C23_AliveNeverGrows


\* ------------------------------------------------------------------- C24
\* a display name the handlers are to reject: empty after trimming, or longer
\* than 20 characters
badName(name) == trim(name) = "" \/ length(trim(name)) > MaxNameLength

\* the handler answered with an error and changed nothing
refused(out) == out.error # "ok" /\ out.st = St(rooms, timers)

\* C24: create-room and join-room answer a name that is empty after trimming
\* or longer than 20 characters with an error and change nothing, and every
\* name stored in a room has between 1 and 20 characters
C24_NameLength ==
  /\ \A socketId \in Ids, roomCode \in CodeInputs :
       \A name \in anyNameInputs(socketId) :
         badName(name) =>
           /\ \A out \in onCreateRoom(rooms, timers, socketId, name, toUpperCase(roomCode)) :
                refused(out)
           /\ \A out \in onJoinRoom(rooms, timers, socketId, roomCode, name) :
                refused(out)
  /\ \A c \in DOMAIN rooms :
       \A i \in DOMAIN rooms[c].players :
         /\ length(rooms[c].players[i].name) >= 1
         /\ length(rooms[c].players[i].name) <= MaxNameLength


\* ------------------------------------------------------------------- C25
\* the players of the room that come after the current turn in turnOrder and
\* are still in the room and alive: those who have not held the floor yet
stillToSpeak(room) ==
  SelectSeq(SubSeq(room.turnOrder, room.currentTurnIndex + 2, Len(room.turnOrder)),
            LAMBDA id : foundAlive(room.players, id))

\* the step ends the current turn of the room of code c: same round, index
\* one higher
turnEnds(c) ==
  /\ c \in DOMAIN rooms /\ c \in DOMAIN rooms'
  /\ rooms[c].phase = "speaking"
  /\ rooms'[c].phase \in {"speaking", "voting"}
  /\ rooms'[c].round = rooms[c].round
  /\ rooms'[c].currentTurnIndex = rooms[c].currentTurnIndex + 1

\* C25: when a turn ends, the floor goes to the next player of the order who
\* is still in the room and alive, and the room goes to voting only when no
\* such player is left; so every remaining player holds the floor once per
\* round, also after a player left during speaking
C25_EveryoneSpeaks ==
  [][\A c \in Codes :
       turnEnds(c) =>
         IF stillToSpeak(rooms[c]) = << >>
         THEN rooms'[c].phase = "voting"
         ELSE /\ rooms'[c].phase = "speaking"
              /\ currentSpeaker(rooms'[c]) = stillToSpeak(rooms[c])[1]]_vars


\* ------------------------------------------------------------------- C26
speakingIn(c) == c \in DOMAIN rooms /\ rooms[c].phase = "speaking"

\* the room of code c has left speaking: it is in voting, was reset to lobby,
\* or is gone
speakingOver(c) == c \notin DOMAIN rooms \/ rooms[c].phase \in {"voting", "lobby"}

C27_SpeakerPresent ==
  \A c \in DOMAIN rooms :
    rooms[c].phase = "speaking" =>
      /\ 0 <= rooms[c].currentTurnIndex
      /\ rooms[c].currentTurnIndex < Len(rooms[c].turnOrder)
      /\ foundAlive(rooms[c].players, currentSpeaker(rooms[c]))
      /\ \E caller \in idsOf(rooms[c]) :
           \A out \in onSkipTurn(rooms, timers, caller, c) : out.error = "ok"


\* ------------------------------------------------------------------- C28
\* the players that are alive before the step and not alive after it
votedOut(c) == aliveIds(rooms[c]) \ aliveIds(rooms'[c])

\* C28: every tally eliminates exactly one player: exactly one player alive
\* before is not alive afterwards, its id is appended to eliminated and is
\* lastEliminated, and the alive count is one lower
C28_TallyEliminatesOne ==
  [][\A c \in Codes :
       tallyStep(c) =>
         /\ Cardinality(votedOut(c)) = 1
         /\ \A id \in votedOut(c) :
              /\ rooms'[c].eliminated = Append(rooms[c].eliminated, id)
              /\ rooms'[c].lastEliminated = id
         /\ aliveCountOf(rooms'[c]) = aliveCountOf(rooms[c]) - 1]_vars


\* ------------------------------------------------------------------- C29
\* seq lists every element of S once
isPermutationOf(seq, S) == Len(seq) = Cardinality(S) /\ Range(seq) = S

\* the states the expiry of the results delay of room c can lead to
nextRoundOutcomes(c) ==
  UNION {startNextRound(rooms, removeAt(timers, i), c) :
           i \in {j \in DOMAIN timers : /\ canFire(timers, j)
                                        /\ timers[j] = resultsTimer(c)}}

\* C29: turnOrder is built anew at each round boundary: an accepted start-game
\* leaves a permutation of the ids of all players of the room with
\* currentTurnIndex 0, and the expiry of the results delay of a room in
\* results leaves the room in speaking with a permutation of the ids of its
\* alive players, currentTurnIndex 0, no votes, lastEliminated null and round
\* one higher
C29_OrderRebuilt ==
  \A c \in DOMAIN rooms :
    /\ \A caller \in Ids, mode \in Modes :
         \A out \in onStartGame(rooms, timers, caller, c, mode) :
           out.error = "ok" =>
             /\ isPermutationOf(out.st.rooms[c].turnOrder, idsOf(rooms[c]))
             /\ out.st.rooms[c].currentTurnIndex = 0
    /\ rooms[c].phase = "results" =>
         \A st \in nextRoundOutcomes(c) :
           /\ st.rooms[c].phase = "speaking"
           /\ isPermutationOf(st.rooms[c].turnOrder, aliveIds(rooms[c]))
           /\ aliveIds(st.rooms[c]) = aliveIds(rooms[c])
           /\ st.rooms[c].currentTurnIndex = 0
           /\ st.rooms[c].votes = << >>
           /\ st.rooms[c].lastEliminated = NULL
           /\ st.rooms[c].round = rooms[c].round + 1

\* a second round has begun after an elimination: the order holds the alive
\* players only
C29_Witness ==
  \E c \in DOMAIN rooms :
    /\ rooms[c].phase = "speaking"
    /\ rooms[c].round = 2
    /\ rooms[c].currentTurnIndex = 0
    /\ Len(rooms[c].eliminated) = 1
    /\ isPermutationOf(rooms[c].turnOrder, aliveIds(rooms[c]))
    /\ aliveIds(rooms[c]) # idsOf(rooms[c])


\* ------------------------------------------------------------------- C30
\* C30: round is 1 in lobby and after every accepted start-game, and while a
\* room is in speaking or voting round is 1 plus the length of eliminated, so
\* round has grown only by as much as there were eliminations in the game
C30_RoundCountsEliminations ==
  \A c \in DOMAIN rooms :
    /\ rooms[c].phase = "lobby" => rooms[c].round = 1
    /\ \A caller \in Ids, mode \in Modes :
         \A out \in onStartGame(rooms, timers, caller, c, mode) :
           out.error = "ok" => out.st.rooms[c].round = 1
    /\ rooms[c].phase \in {"speaking", "voting"} =>
         rooms[c].round = 1 + Len(rooms[c].eliminated)


\* ------------------------------------------------------------------- C31
\* C31: in every registered room turnStartTime is null when the phase is
\* lobby, voting, results or ended, and not null when the phase is speaking
C31_TurnStartTime ==
  \A c \in DOMAIN rooms :
    (rooms[c].turnStartTime # NULL) <=> (rooms[c].phase = "speaking")


\* ------------------------------------------------------------------- C32
\* the room of code c is started in this step: the step is an outcome of an
\* accepted start-game of its host, in the mode the room has afterwards
startedNow(c) ==
  \E out \in onStartGame(rooms, timers, rooms[c].hostId, c, rooms'[c].mode) :
    out.error = "ok" /\ out.st.rooms = rooms'

\* a room in lobby has no roles and no words, and no view of it has a role or
\* a word
C32_LobbyEmpty ==
  \A c \in DOMAIN rooms :
    rooms[c].phase = "lobby" =>
      /\ rooms[c].roles = << >>
      /\ rooms[c].words = << >>
      /\ \A id \in Ids :
           /\ getClientRoom(rooms[c], id).myRole = UNDEFINED
           /\ getClientRoom(rooms[c], id).myWord = UNDEFINED

\* roles and words get entries only in a step that starts the game, and a
\* step that brings a room to lobby leaves them empty
C32_PopulatedByStart ==
  \A c \in Codes :
    c \in DOMAIN rooms /\ c \in DOMAIN rooms' =>
      /\ (\/ rooms'[c].roles # rooms[c].roles /\ rooms'[c].roles # << >>
          \/ rooms'[c].words # rooms[c].words /\ rooms'[c].words # << >>) => startedNow(c)
      /\ rooms'[c].phase = "lobby" => rooms'[c].roles = << >> /\ rooms'[c].words = << >>

\* C32: whenever a room is in lobby its roles and words are empty and every
\* view has no myRole and no myWord; only a start populates them and every
\* return to lobby empties them
C32_RolesOnlyInGame == []C32_LobbyEmpty /\ [][C32_PopulatedByStart]_vars

\* a room is back in lobby after a game: players were eliminated and are alive
\* again, and the roles are gone
C32_Witness ==
  \E c \in DOMAIN rooms :
    /\ rooms[c].phase = "lobby"
    /\ Len(rooms[c].players) >= 3
    /\ rooms[c].roles = << >>
    /\ resultsPending(timers) > 0


\* ------------------------------------------------------------------- C33
\* a player leaves the room of code c in this step and others remain
departs(c) ==
  /\ c \in DOMAIN rooms /\ c \in DOMAIN rooms'
  /\ idsOf(rooms'[c]) # idsOf(rooms[c])
  /\ idsOf(rooms'[c]) \subseteq idsOf(rooms[c])

\* C33: a departure that leaves the room non-empty changes players and, when
\* the host left, hostId, and nothing else: every other field of the room and
\* the pending timeouts are as before, so the turn is not advanced even when
\* the current speaker left
C33_DepartureFrame ==
  [][\A c \in Codes :
       departs(c) =>
         /\ \A f \in (DOMAIN rooms[c]) \ {"players", "hostId"} :
              rooms'[c][f] = rooms[c][f]
         /\ rooms'[c].players =
              SelectSeq(rooms[c].players, LAMBDA p : p.id \in idsOf(rooms'[c]))
         /\ rooms'[c].hostId # rooms[c].hostId => rooms[c].hostId \notin idsOf(rooms'[c])
         /\ timers' = timers]_vars

\* the current speaker has left a room in speaking: the turn is still that
\* player's and its timeout is still pending
C33_Witness ==
  \E c \in DOMAIN rooms :
    /\ rooms[c].phase = "speaking"
    /\ currentSpeaker(rooms[c]) # UNDEFINED
    /\ currentSpeaker(rooms[c]) \notin idsOf(rooms[c])
    /\ armedFor(timers, c) = 1


\* ------------------------------------------------------------------- C34
\* the votes of the room of code c after an accepted cast-vote of voterId for
\* targetId in state st
votesAfter(st, c, voterId, targetId) ==
  {out.st.rooms[c].votes :
     out \in {o \in onCastVote(st.rooms, st.timers, voterId, c, targetId) : o.error = "ok"}}

\* C34: an accepted vote leaves one entry for the voter, holding the target of
\* this vote, and every other entry as it was; a vote of a player who has
\* voted already adds no entry, the same vote again changes no entry, and of
\* two votes in a row the second one stands
C34_LastVoteWins ==
  \A c \in DOMAIN rooms, voterId \in Ids, targetId \in Ids :
    \A out \in onCastVote(rooms, timers, voterId, c, targetId) :
      out.error = "ok" =>
        LET before == rooms[c].votes
            after == out.st.rooms[c].votes
        IN /\ DOMAIN after = (DOMAIN before) \cup {voterId}
           /\ after[voterId] = targetId
           /\ \A v \in (DOMAIN before) \ {voterId} : after[v] = before[v]
           /\ voterId \in DOMAIN before =>
                Cardinality(DOMAIN after) = Cardinality(DOMAIN before)
           /\ (voterId \in DOMAIN before /\ before[voterId] = targetId) => after = before
           /\ \A second \in Ids :
                \A again \in votesAfter(out.st, c, voterId, second) :
                  /\ again[voterId] = second
                  /\ DOMAIN again = DOMAIN after
                  /\ second = targetId => again = after

\* a room in voting in which a player who has voted can vote again for
\* another alive player without ending the vote
C34_Witness ==
  \E c \in DOMAIN rooms :
    /\ rooms[c].phase = "voting"
    /\ \E voterId \in DOMAIN rooms[c].votes, targetId \in Ids :
         /\ rooms[c].votes[voterId] # targetId
         /\ \E out \in onCastVote(rooms, timers, voterId, c, targetId) :
              /\ out.error = "ok"
              /\ out.st.rooms[c].phase = "voting"
              /\ out.st.rooms[c].votes[voterId] = targetId


\* ------------------------------------------------------------------- C35
\* the entries (word, similar[]) of all domains of the word data
wordEntries == UNION {Range(d.words) : d \in Range(wordData)}

\* the words of a room as a start in its mode assigns them: the odd-one-out of
\* an infiltrator game has no word and the others share one term; in a spy
\* game the others share one primary term and the odd-one-out holds one of
\* that term's similar terms
wordsAsDealt(room) ==
  /\ DOMAIN room.words = idsOf(room)
  /\ Cardinality(oddIds(room)) = 1
  /\ \E e \in wordEntries :
       /\ \A id \in idsOf(room) \ oddIds(room) : room.words[id] = e.word
       /\ \A id \in oddIds(room) :
            IF room.mode = "infiltrator" THEN room.words[id] = NULL
            ELSE room.words[id] \in Range(e.similar)

\* every accepted start-game deals the words as above
C35_DealtAtStart ==
  \A c \in DOMAIN rooms, caller \in Ids, mode \in Modes :
    \A out \in onStartGame(rooms, timers, caller, c, mode) :
      out.error = "ok" => /\ out.st.rooms[c].mode = mode
                          /\ wordsAsDealt(out.st.rooms[c])

\* words change only in a step that starts the game or brings the room to
\* lobby
C35_KeptUntilStart ==
  \A c \in Codes :
    (c \in DOMAIN rooms /\ c \in DOMAIN rooms' /\ rooms'[c].words # rooms[c].words) =>
      \/ startedNow(c)
      \/ rooms'[c].phase = "lobby" /\ rooms'[c].words = << >>

\* C35: at start the odd-one-out of an infiltrator game gets no word and all
\* others one common term; in a spy game all others get one common primary
\* term and the odd-one-out a term from that primary term's similar list; the
\* words then stay as they are until the next start or reset
C35_WordAssignment == []C35_DealtAtStart /\ [][C35_KeptUntilStart]_vars

\* a spy game that has gone on to voting with the words it was dealt: the
\* agents hold car, the spy holds bus
C35_Witness ==
  \E c \in DOMAIN rooms :
    /\ rooms[c].phase = "voting"
    /\ rooms[c].mode = "spy"
    /\ wordsAsDealt(rooms[c])
    /\ \E id \in oddIds(rooms[c]) : rooms[c].words[id] = "bus"
    /\ \E id \in idsOf(rooms[c]) : rooms[c].words[id] = "car"


\* ------------------------------------------------------------------- C36
\* the number of entries of the player lists of all rooms that carry the id
entriesOf(id) ==
  Cardinality({<<c, i>> \in Codes \X (1..(2 * MaxConn)) :
                 /\ c \in DOMAIN rooms
                 /\ i \in DOMAIN rooms[c].players
                 /\ rooms[c].players[i].id = id})

\* C36: a connection id is a player of at most one room and has at most one
\* entry in that room's player list, whatever create-room and join-room
\* events the connection sends; and a connection that has disconnected is a
\* player of no room
C36_OneEntryPerConnection ==
  \A id \in Ids :
    /\ entriesOf(id) <= 1
    /\ Cardinality(findRoomByPlayerId(rooms, id)) <= 1
    /\ id \in disconnected => entriesOf(id) = 0


\* ------------------------------------------------------------------- C37
\* the room of code c is in a game that is not decided
undecided(c) ==
  c \in DOMAIN rooms /\ rooms[c].phase \in {"speaking", "voting", "results"}

\* in a game of n players there were at most n - 2 tallies, round is at most
\* n - 2 and at least 2 players are alive
C37_TalliesBounded ==
  \A c \in DOMAIN rooms :
    rooms[c].phase \in GamePhases =>
      LET n == Len(rooms[c].players)
      IN /\ n >= 3
         /\ Len(rooms[c].eliminated) <= n - 2
         /\ rooms[c].round <= n - 2
         /\ aliveCountOf(rooms[c]) >= 2
         /\ aliveCountOf(rooms[c]) = n - Len(rooms[c].eliminated)

C38_NoWinPending ==
  \A c \in DOMAIN rooms :
    undecided(c) =>
      /\ \E id \in oddIds(rooms[c]) : foundAlive(rooms[c].players, id)
      /\ aliveCountOf(rooms[c]) >= 3


\* ------------------------------------------------------------------- C39
\* C39: a start-game sent while the game of the room is in progress (speaking,
\* voting or results) is not accepted and leaves roles, words, turnOrder,
\* eliminated and round of the running game as they are: a game is started
\* from lobby or after ended only
C39_NoRestart ==
  \A c \in DOMAIN rooms :
    undecided(c) =>
      \A caller \in Ids, mode \in Modes :
        \A out \in onStartGame(rooms, timers, caller, c, mode) :
          /\ out.error # "ok"
          /\ \A f \in {"roles", "words", "turnOrder", "eliminated", "round", "phase"} :
               out.st.rooms[c][f] = rooms[c][f]


====
